---- MODULE Spec2Model ----
(***************************************************************************)
(* Model of the event store of TodoList.py: the Event record with its      *)
(* (de)serialisation, the Diary collection with its CRUD operations, the   *)
(* date sort, and the whole-collection persistence to events.json.         *)
(*                                                                         *)
(* Text is a sequence of code points (Python compares str code point by    *)
(* code point); the empty sequence is the empty string.                    *)
(***************************************************************************)
EXTENDS Integers, Sequences, FiniteSets, TLC

\* ---------------------------------------------------------------- bounds
MaxEvents == 2
MaxId == 2

\* ------------------------------------------------------------------ text
\* "2023-01-10"
DateEarly == <<50, 48, 50, 51, 45, 48, 49, 45, 49, 48>>
\* "2024-05-01"
DateLate == <<50, 48, 50, 52, 45, 48, 53, 45, 48, 49>>
\* What add_event is given: "M", "H" and either date.
AddTitles == { <<77>> }
AddImportances == { <<72>> }
AddDates == { DateEarly, DateLate }
\* What edit_event is given when a field is given: "X", "L", the early date.
EditTitle == <<88>>
EditImportance == <<76>>
EditDate == DateEarly

\* An optional argument: None, or Str(s) for a given string s.
None == << >>
Str(s) == << s >>

\* Variant: only None counts as left out (`is not None`).
NotNone(o) == o # None

\* Python truthiness of an optional string: None and "" are falsy.
Truthy(o) == o # None /\ o[1] # << >>

\* str.__lt__: lexicographic on code points, a proper prefix is smaller.
RECURSIVE StrLess(_, _)
StrLess(a, b) ==
    IF a = << >> THEN b # << >>
    ELSE IF b = << >> THEN FALSE
    ELSE IF a[1] = b[1] THEN StrLess(Tail(a), Tail(b))
    ELSE a[1] < b[1]

\* ----------------------------------------------------------------- Event
Event(event_id, title, importance, date, completed) ==
    [id |-> event_id, title |-> title, importance |-> importance,
     date |-> date, completed |-> completed]

\* Variant: the record is written with the default completion flag.
ToDictNotCompleted(e) ==
    [id |-> e.id, title |-> e.title, importance |-> e.importance,
     date |-> e.date, completed |-> FALSE]

to_dict(e) ==
    [id |-> e.id, title |-> e.title, importance |-> e.importance,
     date |-> e.date, completed |-> e.completed]

from_dict(data) ==
    Event(data.id, data.title, data.importance, data.date,
          IF "completed" \in DOMAIN data THEN data.completed ELSE FALSE)

\* ------------------------------------------------------------------ file
\* events.json: absent, or a document holding a sequence of records, or a
\* text cut before the end of its document. A cut text is not JSON and no
\* operation reads what is left of it, so its content is not kept.
NoFile == [exists |-> FALSE, recs |-> << >>, closed |-> FALSE]
Document(recs) == [exists |-> TRUE, recs |-> recs, closed |-> TRUE]
Truncated == [exists |-> TRUE, recs |-> << >>, closed |-> FALSE]

\* json.dump([event.to_dict() for event in self.events], ...)
Dump(evs) == [i \in 1..Len(evs) |-> to_dict(evs[i])]

\* [Event.from_dict(event) for event in data]
Parse(recs) == [i \in 1..Len(recs) |-> from_dict(recs[i])]

\* A file written by an earlier version: one record without 'completed'.
LegacyFile ==
    Document(<< [id |-> 2, title |-> <<77>>, importance |-> <<72>>,
                 date |-> DateLate] >>)

VARIABLES events, file, pc, lastOp
vars == <<events, file, pc, lastOp>>

\* What the console shows of the last call: the operation and the message it
\* printed ("ok", "notfound"), or the traceback of the call that raised.
Op(op, result) == [op |-> op, result |-> result, save |-> "none"]
Saved(op) == [op EXCEPT !.save = "ok"]
Traceback(op) == [op |-> op, result |-> "error", save |-> "none"]
SaveFailed == [op |-> "save", result |-> "error", save |-> "ioerror"]

\* ----------------------------------------------------------------- Diary
\* The outcomes of save_events: the document is replaced; or open() fails
\* and the file is untouched; or open() has emptied the file and the write
\* stops before the end of the document.
save_events(evs, f) ==
    { [file |-> Document(Dump(evs)), status |-> "ok"],
      [file |-> f, status |-> "ioerror"],
      [file |-> Truncated, status |-> "ioerror"] }

\* An operation that has changed the list to evs ends with save_events; an
\* I/O error is not caught by main and ends the process.
Save(evs, op) ==
    \E out \in save_events(evs, file) :
        /\ file' = out.file
        /\ IF out.status = "ok"
           THEN pc' = "running" /\ events' = evs /\ lastOp' = Saved(op)
           ELSE pc' = "crashed" /\ events' = << >> /\ lastOp' = SaveFailed

\* Variant: the loop variable is returned after the loop, the last event
\* standing in for a miss.
GetEventOrLast(evs, event_id) ==
    IF \E i \in 1..Len(evs) : evs[i].id = event_id
    THEN CHOOSE i \in 1..Len(evs) :
            /\ evs[i].id = event_id
            /\ \A j \in 1..(i - 1) : evs[j].id # event_id
    ELSE Len(evs)

\* Index of the first event with the id, 0 for None.
get_event_by_id(evs, event_id) ==
    IF \E i \in 1..Len(evs) : evs[i].id = event_id
    THEN CHOOSE i \in 1..Len(evs) :
            /\ evs[i].id = event_id
            /\ \A j \in 1..(i - 1) : evs[j].id # event_id
    ELSE 0

MaxOf(S) == CHOOSE m \in S : \A x \in S : x <= m

\* Variant: the largest id without the increment.
GenerateIdNoIncrement(evs) ==
    IF evs = << >> THEN 1
    ELSE MaxOf({ evs[i].id : i \in 1..Len(evs) })

\* Variant: the id is the number of events plus one.
GenerateIdByCount(evs) == Len(evs) + 1

_generate_id(evs) ==
    IF evs = << >> THEN 1
    ELSE MaxOf({ evs[i].id : i \in 1..Len(evs) }) + 1

Init ==
    /\ file \in { NoFile, LegacyFile }
    /\ events = IF file.exists THEN Parse(file.recs) ELSE << >>
    /\ pc = "running"
    /\ lastOp = Op("load", "ok")

load_events ==
    /\ UNCHANGED file
    /\ IF ~file.exists
       THEN /\ events' = << >>
            /\ pc' = "running"
            /\ lastOp' = Op("load", "ok")
       ELSE IF file.closed
       THEN /\ events' = Parse(file.recs)
            /\ pc' = "running"
            /\ lastOp' = Op("load", "ok")
       ELSE /\ events' = << >>
            /\ pc' = "crashed"
            /\ lastOp' = Traceback("load")

add_event(title, importance, date) ==
    /\ pc = "running"
    /\ Len(events) < MaxEvents
    /\ _generate_id(events) <= MaxId
    /\ LET event_id == _generate_id(events)
           new_event == Event(event_id, title, importance, date, FALSE)
       IN Save(Append(events, new_event), Op("add", "ok"))

\* Variant: the event is rebuilt from its fields, completed at its default.
EditFieldsFresh(e, title, importance, date) ==
    Event(e.id,
          IF Truthy(title) THEN title[1] ELSE e.title,
          IF Truthy(importance) THEN importance[1] ELSE e.importance,
          IF Truthy(date) THEN date[1] ELSE e.date,
          FALSE)

EditFields(e, title, importance, date) ==
    [e EXCEPT !.title = IF Truthy(title) THEN title[1] ELSE @,
              !.importance = IF Truthy(importance) THEN importance[1] ELSE @,
              !.date = IF Truthy(date) THEN date[1] ELSE @]

\* The list edit_event leaves for an id that is found.
Edited(evs, event_id, title, importance, date) ==
    LET event == get_event_by_id(evs, event_id)
    IN [evs EXCEPT ![event] = EditFields(@, title, importance, date)]

edit_event(event_id, title, importance, date) ==
    /\ pc = "running"
    /\ IF get_event_by_id(events, event_id) # 0
       THEN Save(Edited(events, event_id, title, importance, date),
                 Op("edit", "ok"))
       ELSE /\ lastOp' = Op("edit", "notfound")
            /\ UNCHANGED <<events, file, pc>>

\* Variant: list.pop() in place of list.remove(event).
RemoveLast(evs, event) == SubSeq(evs, 1, Len(evs) - 1)

\* list.remove of the object found: the element at that index goes.
Remove(evs, event) ==
    SubSeq(evs, 1, event - 1) \o SubSeq(evs, event + 1, Len(evs))

\* The list delete_event leaves for an id that is found.
Deleted(evs, event_id) == Remove(evs, get_event_by_id(evs, event_id))

delete_event(event_id) ==
    /\ pc = "running"
    /\ IF get_event_by_id(events, event_id) # 0
       THEN Save(Deleted(events, event_id), Op("delete", "ok"))
       ELSE /\ lastOp' = Op("delete", "notfound")
            /\ UNCHANGED <<events, file, pc>>

\* Variant: the flag is toggled.
ToggleCompleted(e) == [e EXCEPT !.completed = ~@]

SetCompleted(e) == [e EXCEPT !.completed = TRUE]

\* The list mark_completed leaves for an id that is found.
Marked(evs, event_id) ==
    LET event == get_event_by_id(evs, event_id)
    IN [evs EXCEPT ![event] = SetCompleted(@)]

mark_completed(event_id) ==
    /\ pc = "running"
    /\ IF get_event_by_id(events, event_id) # 0
       THEN Save(Marked(events, event_id), Op("mark", "ok"))
       ELSE /\ lastOp' = Op("mark", "notfound")
            /\ UNCHANGED <<events, file, pc>>

\* key=lambda event: event.date
SortKey(e) == e.date

\* Variant: an element goes before the elements of equal key.
RECURSIVE InsertBeforeEqual(_, _)
InsertBeforeEqual(sorted, e) ==
    IF sorted = << >> THEN << e >>
    ELSE IF ~StrLess(SortKey(sorted[Len(sorted)]), SortKey(e))
    THEN Append(InsertBeforeEqual(SubSeq(sorted, 1, Len(sorted) - 1), e),
                sorted[Len(sorted)])
    ELSE Append(sorted, e)

\* list.sort is stable: an element goes after every element already placed
\* whose key is not greater than its own.
RECURSIVE InsertSorted(_, _)
InsertSorted(sorted, e) ==
    IF sorted = << >> THEN << e >>
    ELSE IF StrLess(SortKey(e), SortKey(sorted[Len(sorted)]))
    THEN Append(InsertSorted(SubSeq(sorted, 1, Len(sorted) - 1), e),
                sorted[Len(sorted)])
    ELSE Append(sorted, e)

RECURSIVE Sorted(_)
Sorted(evs) ==
    IF evs = << >> THEN << >>
    ELSE InsertSorted(Sorted(SubSeq(evs, 1, Len(evs) - 1)), evs[Len(evs)])

sort_events_by_date ==
    /\ pc = "running"
    /\ Save(Sorted(events), Op("sort", "ok"))

\* The ids a caller may pass: those in use and one that never is.
Ids == 1..(MaxId + 1)

\* The arguments of edit_event: every choice of fields to overwrite, the
\* others left None; and the call that leaves every field empty.
EditArgs ==
    { <<t, i, d>> : t \in { None, Str(EditTitle) },
                    i \in { None, Str(EditImportance) },
                    d \in { None, Str(EditDate) } }
    \cup { << Str(<< >>), Str(<< >>), Str(<< >>) >> }

Next ==
    \/ load_events
    \/ \E t \in AddTitles, i \in AddImportances, d \in AddDates :
          add_event(t, i, d)
    \/ \E id \in Ids, a \in EditArgs : edit_event(id, a[1], a[2], a[3])
    \/ \E id \in Ids : delete_event(id)
    \/ \E id \in Ids : mark_completed(id)
    \/ sort_events_by_date

Spec == Init /\ [][Next]_vars

\* ------------------------------------------------------ stores to sort
\* The stores the sort is applied to: up to MaxSorted events with distinct
\* ids and either date, as loaded from a file that holds them.
MaxSorted == 3

SortEvents ==
    { Event(id, t, i, d, FALSE) :
        id \in 1..MaxSorted, t \in AddTitles, i \in AddImportances, d \in AddDates }

SortStores ==
    { evs \in UNION { [1..n -> SortEvents] : n \in 0..MaxSorted } :
        \A j, k \in 1..Len(evs) : j # k => evs[j].id # evs[k].id }

SortInit ==
    /\ events \in SortStores
    /\ file = Document(Dump(events))
    /\ pc = "running"
    /\ lastOp = Op("load", "ok")

SortNext ==
    \/ sort_events_by_date
    \/ load_events

SortSpec == SortInit /\ [][SortNext]_vars

\* ---------------------------------------------------------------- claims
IdsOf(evs) == { evs[i].id : i \in 1..Len(evs) }
HasId(evs, id) == \E i \in 1..Len(evs) : evs[i].id = id
IdSeq(evs) == [k \in 1..Len(evs) |-> evs[k].id]
DateSeq(evs) == [k \in 1..Len(evs) |-> evs[k].date]
Pos(evs, id) == CHOOSE k \in 1..Len(evs) : evs[k].id = id
Largest(S) == CHOOSE m \in S : \A x \in S : x <= m
Running == pc = "running"
SaveOk == lastOp'.save = "ok"
Keys == { "id", "title", "importance", "date", "completed" }

\* The file is a whole document whose records are the events, in order.
FileHolds(f, evs) ==
    /\ f.exists
    /\ f.closed
    /\ Len(f.recs) = Len(evs)
    /\ \A k \in 1..Len(evs) :
         /\ DOMAIN f.recs[k] = Keys
         /\ f.recs[k].id = evs[k].id
         /\ f.recs[k].title = evs[k].title
         /\ f.recs[k].importance = evs[k].importance
         /\ f.recs[k].date = evs[k].date
         /\ f.recs[k].completed = evs[k].completed

\* C1: every event id is a positive integer and no two events of the
\* collection share an id.
C1_IdsUniquePositive ==
    /\ \A k \in 1..Len(events) : events[k].id \in Nat /\ events[k].id >= 1
    /\ \A j, k \in 1..Len(events) : j # k => events[j].id # events[k].id

C1_Witness ==
    /\ Running
    /\ lastOp.op = "edit"
    /\ lastOp.save = "ok"
    /\ IdSeq(events) = <<2, 1>>

\* C2: add appends at the end exactly one new event, not completed, whose id
\* is 1 for an empty store and the largest id plus one otherwise.
NextId(evs) == IF evs = << >> THEN 1 ELSE Largest(IdsOf(evs)) + 1

AddPost(title, importance, date) ==
    events' = Append(events, [id |-> NextId(events), title |-> title,
                              importance |-> importance, date |-> date,
                              completed |-> FALSE])

AddAppendsNextId ==
    \A t \in AddTitles, i \in AddImportances, d \in AddDates :
        ~ENABLED (add_event(t, i, d) /\ SaveOk /\ ~AddPost(t, i, d))

\* C2 as stated: moreover, after the event holding the largest id is deleted,
\* the next add is assigned that id again.
C2_Original ==
    /\ AddAppendsNextId
    /\ \A id \in Ids :
         (HasId(events, id) /\ id = Largest(IdsOf(events))) =>
            ~ENABLED (delete_event(id) /\ SaveOk /\ _generate_id(events') # id)

\* The deleted id is the one an add had just assigned: it is one more than
\* the largest id that remains, or it is 1 and nothing remains.
JustAssigned(evs, id) ==
    LET rest == IdsOf(evs) \ { id }
    IN IF rest = {} THEN id = 1 ELSE id = Largest(rest) + 1

\* C2 amended: after the event holding the largest id is deleted, the next
\* add is assigned that id again when that id is one more than the largest
\* remaining id (or is 1 and no event remains).
C2_AddReusesJustAssignedId ==
    /\ AddAppendsNextId
    /\ \A id \in Ids :
         (HasId(events, id) /\ id = Largest(IdsOf(events))
             /\ JustAssigned(events, id)) =>
            ~ENABLED (delete_event(id) /\ SaveOk /\ _generate_id(events') # id)

C2_Witness ==
    /\ Running
    /\ lastOp.op = "add"
    /\ lastOp.save = "ok"
    /\ Len(events) = 2
    /\ events[2].id = 2
    /\ ~events[2].completed
    /\ events[1].completed

\* C3: after a mutating operation whose save succeeded the file holds
\* exactly the collection, record by record and in order, and loading it
\* gives the collection back.
C3_FileHoldsCollection ==
    lastOp.save = "ok" =>
        /\ FileHolds(file, events)
        /\ Parse(file.recs) = events

C3_Witness ==
    /\ lastOp.op = "sort"
    /\ lastOp.save = "ok"
    /\ Len(events) = 2
    /\ events[1].id > events[2].id
    /\ events[1].completed
    /\ events[2].title = EditTitle

\* C4: when a save fails with an I/O error the file still holds the whole
\* collection it held before.
C4_FailedSaveKeepsFile ==
    [][lastOp'.save = "ioerror" => file' = file]_vars

\* C5: for an id that no event has, edit, delete and markCompleted report
\* not-found, leave the collection and the file as they were, and do not save.
NotFoundPost(op) ==
    /\ lastOp' = [op |-> op, result |-> "notfound", save |-> "none"]
    /\ events' = events
    /\ file' = file
    /\ pc' = pc

C5_MissLeavesStateIntact ==
    \A id \in Ids :
        ~HasId(events, id) =>
            /\ ~ENABLED (delete_event(id) /\ ~NotFoundPost("delete"))
            /\ ~ENABLED (mark_completed(id) /\ ~NotFoundPost("mark"))
            /\ \A a \in EditArgs :
                 ~ENABLED (edit_event(id, a[1], a[2], a[3])
                             /\ ~NotFoundPost("edit"))

C5_Witness ==
    /\ Running
    /\ lastOp.result = "notfound"
    /\ lastOp.save = "none"
    /\ Len(events) = 2

\* C6: an edit of an existing id overwrites exactly the fields that are
\* given and non-empty; the other fields of the event, its id, its completed
\* flag, its position and every other event stay as they were.
Given(o) == o # None /\ o # Str(<< >>)

EditPost(before, after, id, title, importance, date) ==
    /\ Len(after) = Len(before)
    /\ \A k \in 1..Len(before) :
         IF before[k].id = id
         THEN /\ after[k].id = id
              /\ after[k].completed = before[k].completed
              /\ after[k].title =
                    IF Given(title) THEN title[1] ELSE before[k].title
              /\ after[k].importance =
                    IF Given(importance) THEN importance[1]
                    ELSE before[k].importance
              /\ after[k].date =
                    IF Given(date) THEN date[1] ELSE before[k].date
         ELSE after[k] = before[k]

\* The list every edit of an existing id would leave.
EditResultsAsClaimed ==
    \A id \in Ids :
        HasId(events, id) =>
            \A a \in EditArgs :
                EditPost(events, Edited(events, id, a[1], a[2], a[3]),
                         id, a[1], a[2], a[3])

\* A step of edit that saved: every event keeps its position, its id and its
\* completed flag, and at most one event has changed.
EditStep ==
    (lastOp'.op = "edit" /\ SaveOk) =>
        /\ Len(events') = Len(events)
        /\ \A k \in 1..Len(events) :
             /\ events'[k].id = events[k].id
             /\ events'[k].completed = events[k].completed
        /\ \A j, k \in 1..Len(events) :
             (events'[j] # events[j] /\ events'[k] # events[k]) => j = k

C6_EditOverwritesGivenFields ==
    [] EditResultsAsClaimed /\ [][EditStep]_vars

C6_Witness ==
    /\ Running
    /\ lastOp.op = "edit"
    /\ lastOp.save = "ok"
    /\ \E k \in 1..Len(events) :
         /\ events[k].title = EditTitle
         /\ events[k].importance \in AddImportances
         /\ events[k].date = DateLate

\* C7: delete of an existing id removes exactly the event with that id and
\* persists the result; the other events keep their values and their order.
DeletePost(id) ==
    /\ Len(events') = Len(events) - 1
    /\ ~HasId(events', id)
    /\ \E k \in 1..Len(events) :
         /\ events[k].id = id
         /\ \A j \in 1..Len(events') :
              events'[j] = IF j < k THEN events[j] ELSE events[j + 1]
    /\ FileHolds(file', events')

C7_DeleteRemovesOne ==
    \A id \in Ids :
        HasId(events, id) =>
            ~ENABLED (delete_event(id) /\ SaveOk /\ ~DeletePost(id))

C7_Witness ==
    /\ Running
    /\ lastOp.op = "delete"
    /\ lastOp.save = "ok"
    /\ Len(events) = 1
    /\ events[1].id = 2

\* C8: sortByDate leaves a permutation of the collection in ascending order
\* of the date text, events of equal date in their former relative order,
\* and persists that order; dates 2024-05-01, 2023-01-10, 2024-05-01 of ids
\* 1, 2, 3 give the order 2, 1, 3.
SortPost ==
    /\ Len(events') = Len(events)
    /\ IdsOf(events') = IdsOf(events)
    /\ \A k \in 1..Len(events') :
         events'[k] = events[Pos(events, events'[k].id)]
    /\ \A k \in 1..(Len(events') - 1) :
         ~StrLess(events'[k + 1].date, events'[k].date)
    /\ \A j, k \in 1..Len(events') :
         (j < k /\ events'[j].date = events'[k].date) =>
            Pos(events, events'[j].id) < Pos(events, events'[k].id)
    /\ FileHolds(file', events')
    /\ (IdSeq(events) = <<1, 2, 3>>
          /\ DateSeq(events) = <<DateLate, DateEarly, DateLate>>)
         => IdSeq(events') = <<2, 1, 3>>

C8_SortStableAscending ==
    [][(sort_events_by_date /\ SaveOk) => SortPost]_vars

C8_Witness ==
    /\ Running
    /\ lastOp.op = "sort"
    /\ lastOp.save = "ok"
    /\ IdSeq(events) = <<2, 1, 3>>
    /\ DateSeq(events) = <<DateEarly, DateLate, DateLate>>

\* C9: markCompleted of an existing id sets completed on that event and
\* changes nothing else; applied again it reports found again and leaves the
\* collection and the file as the first application left them.
MarkPost(id) ==
    /\ lastOp'.result = "ok"
    /\ Len(events') = Len(events)
    /\ \A k \in 1..Len(events) :
         IF events[k].id = id
         THEN /\ events'[k].completed
              /\ events'[k].id = id
              /\ events'[k].title = events[k].title
              /\ events'[k].importance = events[k].importance
              /\ events'[k].date = events[k].date
         ELSE events'[k] = events[k]

\* The state a successful markCompleted(id) leaves.
MarkedOnce(id) ==
    /\ lastOp.op = "mark"
    /\ lastOp.save = "ok"
    /\ events[Pos(events, id)].completed

C9_MarkCompletedIdempotent ==
    \A id \in Ids :
        HasId(events, id) =>
            /\ ~ENABLED (mark_completed(id) /\ SaveOk /\ ~MarkPost(id))
            /\ MarkedOnce(id) =>
                 ~ENABLED (mark_completed(id) /\ SaveOk
                             /\ ~(events' = events /\ file' = file
                                    /\ lastOp'.result = "ok"))

C9_Witness ==
    /\ Running
    /\ lastOp.op = "mark"
    /\ lastOp.save = "ok"
    /\ Len(events) = 2
    /\ events[1].completed
    /\ ~events[2].completed

\* C10: a completed event stays completed for as long as it is in the
\* store: no step leaves an event of the same id that is not completed.
C10_CompletionMonotone ==
    [][\A k \in 1..Len(events) :
         events[k].completed =>
            \A j \in 1..Len(events') :
               events'[j].id = events[k].id => events'[j].completed]_vars

C10_Witness ==
    /\ Running
    /\ lastOp.op = "edit"
    /\ lastOp.save = "ok"
    /\ \E k \in 1..Len(events) :
         events[k].completed /\ events[k].title = EditTitle

====
